---- MODULE Spec2Model ----
(***************************************************************************)
(* SinspTestDriver (falco_plugin_tests/c++/sinsp_test_driver.{h,cpp}):     *)
(* a test driver that serialises every call into one libsinsp inspector   *)
(* behind the process-wide mutex s_sinsp_lock.                            *)
(*                                                                         *)
(* Threads call the public operations of the drivers.  Every operation    *)
(* starts with std::scoped_lock m(s_sinsp_lock) (action Lock) and runs    *)
(* its body while holding the mutex; the scoped_lock's destructor         *)
(* releases it when the body returns or throws (Unlock, part of every     *)
(* body action).                                                          *)
(***************************************************************************)
EXTENDS Integers, Sequences, FiniteSets, TLC

\* ------------------------------------------------------------ bounds
NumThreads == 2
MaxEvents == 2

Threads == 1..NumThreads

\* The driver instances of the process.  Drivers share nothing but the mutex
\* (every operation reads and writes the state of its own driver only), so
\* two of them show all there is to see of several.
Drivers == {1, 2}

\* ------------------------------------------------------- environment
\* Plugins a test may register.  PA sources events for "test_source" and
\* extracts the field "a.field" from them; PB has neither capability.
PA == "PA"
PB == "PB"
Plugins == {PA, PB}
CAP_SOURCING == "CAP_SOURCING"
CAP_EXTRACTION == "CAP_EXTRACTION"
CAP_PARSING == "CAP_PARSING"

caps(p) == IF p = PA THEN {CAP_SOURCING, CAP_EXTRACTION} ELSE {CAP_PARSING}

extract_event_sources(p) == IF p = PA THEN {"test_source"} ELSE {}

event_source(p) == IF p = PA THEN "test_source" ELSE "none"

\* sinsp_plugin::is_source_compatible: an empty set is compatible with all.
is_source_compatible(sources, source) == sources = {} \/ source \in sources

\* Fields a plugin's filtercheck understands.
PluginFields(p) == IF p = PA THEN {"a.field"} ELSE {"b.field"}

Sources == {"test_source", "other_source"}
Configs == {"good", "bad"}
FieldNames == {"evt.num", "a.field", "b.field"}

\* plugin->init(config, err): the plugin accepts or rejects its configuration.
PluginInit(p, config) == config = "good"

\* plugin->init(config, err): the message a rejecting plugin leaves in err.
PluginInitErr(p, config) == <<p, "cannot use config", config>>

\* The message of the exception sinsp::register_plugin throws.
RegisterErr(p) == <<"found another plugin with name", p>>

\* Capture files: path -> number of recorded events (-1: unreadable).
Paths == {"events.scap", "empty.scap", "missing.scap"}
FileLen(path) ==
  CASE path = "events.scap" -> MaxEvents
    [] path = "empty.scap" -> 0
    [] OTHER -> -1

\* scap return codes.
SCAP_SUCCESS == "SCAP_SUCCESS"
SCAP_FAILURE == "SCAP_FAILURE"
SCAP_TIMEOUT == "SCAP_TIMEOUT"
SCAP_EOF == "SCAP_EOF"

\* Event pointers: nullptr, or the address of the inspector's event.
NULL == "NULL"
PTR == "PTR"
\* A pointer that is neither: what a variable never assigned happens to hold.
WILD == "WILD"
\* The caller's pointer variable was not written.
UNSET == "UNSET"
NoEvt == [src |-> "none", num |-> 0]
NoSrc == [kind |-> "none", name |-> "none", len |-> 0]

\* Exceptions thrown by the driver (sinsp_exception with distinct messages)
\* or propagated from the inspector.
None == "None"
NullEventError == "NullEventError"
InvalidFieldError == "InvalidFieldError"
NullValueError == "NullValueError"
InitializationError == "InitializationError"
RegisterError == "RegisterError"
OpenError == "OpenError"

\* ---------------------------------------------------- string rendering
Digits == <<"0", "1", "2", "3", "4", "5", "6", "7", "8", "9">>

RECURSIVE Dec(_)
\* Decimal rendering of a natural number, most significant digit first.
Dec(n) == IF n < 10 THEN <<Digits[n + 1]>>
          ELSE Dec(n \div 10) \o <<Digits[(n % 10) + 1]>>

\* ------------------------------------------------------------- state
VARIABLES
  lock,   \* s_sinsp_lock: 0 when free, else the thread holding it
  pc,     \* per thread: "idle", "waiting" (blocked in scoped_lock), "in"
  drv,    \* per driver: the SinspTestDriver object (m_sinsp, m_filterchecks)
  ret     \* the call that completed last, its arguments and its outcome,
          \* until the next call takes the mutex

vars == <<lock, pc, drv, ret>>

NoDriver ==
  [alive |-> FALSE,
   plug |-> [p \in Plugins |-> "none"],
   checks |-> {"builtin"},
   src |-> NoSrc,
   pos |-> 0,
   cur |-> NoEvt,
   calls |-> 0,        \* history: next() calls since load_capture_file,
                       \* counted up to the one after the last event
   eofs |-> 0,         \* history: times next() returned SCAP_EOF (up to 2)
   extracted |-> FALSE, \* history: an extraction has succeeded
   last |-> "none",     \* history: the field name extracted last
   dying |-> 0]         \* the thread running ~SinspTestDriver, else 0

NoMetrics == [storage |-> "none", items |-> <<>>]

\* The locals of event_field_as_string_with_offsets between its two extractor
\* invocations: the arguments, the filter check built and what tostring gave.
NoFrame ==
  [d |-> 0, fld |-> "none", evt |-> NULL, chk |-> "nullptr",
   isnull |-> TRUE, result |-> <<>>, start |-> 0, length |-> 0]

NoRet ==
  [op |-> "none", d |-> 0, err |-> None, rc |-> "none", evt |-> NULL,
   fld |-> "none", val |-> <<>>, start |-> 0, length |-> 0,
   plugin |-> "none", source |-> "none", metrics |-> NoMetrics,
   config |-> "none",   \* register_plugin: the configuration given to init
   handle |-> "none",   \* register_plugin: the shared_ptr returned
   msg |-> <<>>,        \* the message of the exception thrown
   passes |-> <<>>,     \* extraction: the extractor invocations made
   built |-> <<>>,      \* extraction: the names a filter check was built for
   frame |-> NoFrame]   \* an offset-aware extraction between its passes

Init ==
  /\ lock = 0
  /\ pc = [t \in Threads |-> "idle"]
  /\ drv = [d \in Drivers |-> NoDriver]
  /\ ret = NoRet

\* ------------------------------------------------- inspector (libsinsp)
\* The events a source delivers, in order: event k (from 0) carries number k.
EventAt(src, k) == [src |-> src.name, num |-> k]

\* sinsp_filter_check_list::new_filter_check_from_fldname: the registered
\* check that understands the field name, or nullptr.
new_filter_check_from_fldname(D, field_name) ==
  IF field_name = "evt.num" /\ "builtin" \in D.checks THEN "builtin"
  ELSE IF \E p \in Plugins : p \in D.checks /\ field_name \in PluginFields(p)
  THEN CHOOSE p \in Plugins : p \in D.checks /\ field_name \in PluginFields(p)
  ELSE "nullptr"

\* sinsp_filter_check::tostring: whether the field has a value for the event.
HasValue(field_name, evt) ==
  \/ field_name = "evt.num"
  \/ field_name = "a.field" /\ evt.src = "test_source"

\* sinsp_filter_check::tostring: the rendered value.
tostring(field_name, evt) ==
  IF field_name = "evt.num" THEN Dec(evt.num) ELSE <<"a">> \o Dec(evt.num)

\* sinsp_filter_check::extract_with_offsets: the offsets of every occurrence
\* of the field in the event (none for a value not taken from the payload).
extract_with_offsets(field_name, evt) ==
  IF ~HasValue(field_name, evt) THEN <<>>
  ELSE IF field_name = "evt.num" THEN <<[start |-> 8, length |-> 8]>>
  ELSE IF evt.num % 2 = 0 THEN <<>>
  ELSE <<[start |-> 26 + evt.num, length |-> 1],
         [start |-> 40 + evt.num, length |-> 1]>>

\* sinsp::next: the status, the event pointer and the state of the inspector
\* after one step.  SCAP_FAILURE without an open source; SCAP_EOF, for good,
\* once the source is exhausted; before that a live source may have nothing
\* to deliver yet (timeout).  The caller's event pointer is set to the event
\* on SCAP_SUCCESS; nothing the driver can rely on is known of it otherwise.
SinspNext(D, timeout) ==
  IF D.src.kind = "none" THEN [rc |-> SCAP_FAILURE, evt |-> UNSET, D |-> D]
  ELSE IF D.pos >= D.src.len THEN [rc |-> SCAP_EOF, evt |-> UNSET, D |-> D]
  ELSE IF timeout /\ D.src.kind = "plugin"
  THEN [rc |-> SCAP_TIMEOUT, evt |-> UNSET, D |-> D]
  ELSE [rc |-> SCAP_SUCCESS, evt |-> PTR,
        D |-> [D EXCEPT !.cur = EventAt(D.src, D.pos), !.pos = D.pos + 1]]

\* sinsp::open_savefile / sinsp::open_plugin followed by sinsp::start_capture
\* on a readable source: the inspector starts at the source's first event.
SinspOpen(D, src) ==
  [D EXCEPT !.src = src, !.pos = 0, !.calls = 0, !.eofs = 0]

\* libs_metrics_collector::snapshot + get_metrics: the collector's storage
\* after a snapshot.  One counter per plugin the inspector initialised: the
\* events the plugin delivered so far as the open source.
SinspMetrics(D) ==
  LET ready == SelectSeq(<<PA, PB>>, LAMBDA p : D.plug[p] = "ready")
  IN [i \in 1..Len(ready) |->
        [name |-> ready[i],
         u64 |-> IF D.src.kind = "plugin" /\ D.src.name = event_source(ready[i])
                 THEN D.pos ELSE 0]]

\* ------------------------------------------------------------ locking
\* A thread calls a public operation and reaches its scoped_lock.
Call(t) ==
  /\ pc[t] = "idle"
  /\ pc' = [pc EXCEPT ![t] = "waiting"]
  /\ UNCHANGED <<lock, drv, ret>>

\* Mutant of Lock: the mutex is taken without waiting for it to be free.
LockNoWait(t) ==
  /\ pc[t] = "waiting"
  /\ lock' = t
  /\ pc' = [pc EXCEPT ![t] = "in"]
  /\ ret' = NoRet
  /\ UNCHANGED drv

\* std::scoped_lock m(s_sinsp_lock): blocks until the mutex is free.
Lock(t) ==
  /\ pc[t] = "waiting"
  /\ lock = 0
  /\ lock' = t
  /\ pc' = [pc EXCEPT ![t] = "in"]
  /\ ret' = NoRet
  /\ UNCHANGED drv

\* Mutant of Unlock: lock()/unlock() by hand, the unlock skipped by a throw.
UnlockOnReturn(t, err) ==
  /\ lock' = IF err = None THEN 0 ELSE lock
  /\ pc' = [pc EXCEPT ![t] = "idle"]

\* ~scoped_lock when the operation's scope is left, by return (err = None)
\* or by a thrown exception: the mutex is released either way.
Unlock(t, err) ==
  /\ lock' = 0
  /\ pc' = [pc EXCEPT ![t] = "idle"]

\* The driver slot new_test_driver fills next.
NextSlot == IF \E d \in Drivers : ~drv[d].alive /\ drv[d].dying = 0
            THEN CHOOSE d \in Drivers :
                   /\ ~drv[d].alive /\ drv[d].dying = 0
                   /\ \A e \in Drivers :
                        e < d => (drv[e].alive \/ drv[e].dying # 0)
            ELSE 0

\* --------------------------------------------------------- operations
new_test_driver(t, d) ==
  /\ pc[t] = "in"
  /\ d = NextSlot
  /\ drv' = [drv EXCEPT ![d] = [NoDriver EXCEPT !.alive = TRUE]]
  /\ ret' = [NoRet EXCEPT !.op = "new_test_driver", !.d = d]
  /\ Unlock(t, None)

\* Mutant of register_plugin: a rejected configuration is reported with a
\* message of the driver's own, not with the plugin's.
register_plugin_own_message(t, d, p, config) ==
  /\ pc[t] = "in"
  /\ drv[d].alive
  /\ IF drv[d].plug[p] # "none"
     THEN /\ UNCHANGED drv
          /\ ret' = [NoRet EXCEPT !.op = "register_plugin", !.d = d,
                                  !.plugin = p, !.err = RegisterError,
                                  !.msg = RegisterErr(p)]
          /\ Unlock(t, RegisterError)
     ELSE IF ~PluginInit(p, config)
     THEN /\ drv' = [drv EXCEPT ![d].plug[p] = "failed"]
          /\ ret' = [NoRet EXCEPT !.op = "register_plugin", !.d = d,
                                  !.plugin = p, !.config = config,
                                  !.err = InitializationError,
                                  !.msg = <<"plugin initialization failed">>]
          /\ Unlock(t, InitializationError)
     ELSE /\ drv' = [drv EXCEPT ![d].plug[p] = "ready"]
          /\ ret' = [NoRet EXCEPT !.op = "register_plugin", !.d = d,
                                  !.plugin = p, !.config = config,
                                  !.handle = p]
          /\ Unlock(t, None)

\* The plugin is registered with the inspector first and initialised second:
\* a plugin whose init fails stays in the inspector's registry.
register_plugin(t, d, p, config) ==
  /\ pc[t] = "in"
  /\ drv[d].alive
  /\ IF drv[d].plug[p] # "none"
     THEN \* m_sinsp.register_plugin throws: the name is already registered
          /\ UNCHANGED drv
          /\ ret' = [NoRet EXCEPT !.op = "register_plugin", !.d = d,
                                  !.plugin = p, !.err = RegisterError,
                                  !.msg = RegisterErr(p)]
          /\ Unlock(t, RegisterError)
     ELSE IF ~PluginInit(p, config)
     THEN \* throw sinsp_exception(err)
          /\ drv' = [drv EXCEPT ![d].plug[p] = "failed"]
          /\ ret' = [NoRet EXCEPT !.op = "register_plugin", !.d = d,
                                  !.plugin = p, !.config = config,
                                  !.err = InitializationError,
                                  !.msg = PluginInitErr(p, config)]
          /\ Unlock(t, InitializationError)
     ELSE \* return plugin
          /\ drv' = [drv EXCEPT ![d].plug[p] = "ready"]
          /\ ret' = [NoRet EXCEPT !.op = "register_plugin", !.d = d,
                                  !.plugin = p, !.config = config,
                                  !.handle = p]
          /\ Unlock(t, None)

\* Mutant of AddFilterchecks: the source is not compared.
AddFilterchecksAnySource(D, p, source) ==
  IF CAP_EXTRACTION \in caps(p)
  THEN [D EXCEPT !.checks = (D.checks \cup {"generic"}) \cup {p}]
  ELSE D

\* m_filterchecks after add_filterchecks(plugin, source).
AddFilterchecks(D, p, source) ==
  IF /\ CAP_EXTRACTION \in caps(p)
     /\ is_source_compatible(extract_event_sources(p), source)
  THEN [D EXCEPT !.checks = (D.checks \cup {"generic"}) \cup {p}]
  ELSE D

\* plugin is a handle register_plugin returned on this driver.
add_filterchecks(t, d, p, source) ==
  /\ pc[t] = "in"
  /\ drv[d].alive
  /\ drv[d].plug[p] = "ready"
  /\ drv' = [drv EXCEPT ![d] = AddFilterchecks(drv[d], p, source)]
  /\ ret' = [NoRet EXCEPT !.op = "add_filterchecks", !.d = d, !.plugin = p,
                          !.source = source]
  /\ Unlock(t, None)

\* An open of src on the inspector of D.  A second open is not guarded by the
\* driver: the inspector either refuses it (reopen = FALSE) or starts over on
\* the new source.
Open(D, src, ok, reopen) ==
  IF ~ok \/ (D.src.kind # "none" /\ ~reopen)
  THEN [err |-> OpenError, D |-> D]
  ELSE [err |-> None, D |-> SinspOpen(D, src)]

load_capture_file(t, d, path, reopen) ==
  /\ pc[t] = "in"
  /\ drv[d].alive
  /\ LET src == [kind |-> "file", name |-> path, len |-> FileLen(path)]
         r == Open(drv[d], src, FileLen(path) >= 0, reopen)
     IN /\ drv' = [drv EXCEPT ![d] = r.D]
        /\ ret' = [NoRet EXCEPT !.op = "load_capture_file", !.d = d,
                                !.err = r.err]
        /\ Unlock(t, r.err)

start_capture(t, d, name, config, reopen) ==
  /\ pc[t] = "in"
  /\ drv[d].alive
  /\ LET src == [kind |-> "plugin", name |-> event_source(name),
                 len |-> MaxEvents]
         ok == /\ drv[d].plug[name] = "ready"
               /\ CAP_SOURCING \in caps(name)
               /\ config = "good"
         r == Open(drv[d], src, ok, reopen)
     IN /\ drv' = [drv EXCEPT ![d] = r.D]
        /\ ret' = [NoRet EXCEPT !.op = "start_capture", !.d = d,
                                !.plugin = name, !.err = r.err]
        /\ Unlock(t, r.err)

\* Mutant of SinspEvent: the event pointer is not stored in the handle.
SinspEventNoPointer(rc, evt) == [rc |-> rc, evt |-> NULL]

\* SinspEvent{rc, reinterpret_cast<char *>(evt)}
SinspEvent(rc, evt) == [rc |-> rc, evt |-> evt]

Min(a, b) == IF a < b THEN a ELSE b

\* sinsp_evt *evt; has no initialiser: the values the variable can hold when
\* m_sinsp.next(&evt) has not written it.
Indeterminate == {NULL, WILD}

\* Mutant of next: at the end of the source the capture is started over.
next_rewinding(t, d, timeout) ==
  /\ pc[t] = "in"
  /\ drv[d].alive
  /\ \E evt \in Indeterminate :
     LET r == SinspNext(drv[d], timeout)
         e == [rc |-> r.rc, evt |-> IF r.evt = UNSET THEN evt ELSE r.evt]
     IN /\ drv' = [drv EXCEPT ![d] =
                     [r.D EXCEPT !.pos = IF e.rc = SCAP_EOF THEN 0 ELSE @,
                                 !.calls = IF r.D.src.kind = "file"
                                           THEN Min(r.D.calls + 1, r.D.src.len + 1)
                                           ELSE 0,
                                 !.eofs = IF e.rc = SCAP_EOF
                                          THEN Min(r.D.eofs + 1, 2)
                                          ELSE r.D.eofs]]
        /\ ret' = [NoRet EXCEPT !.op = "next", !.d = d, !.rc = e.rc,
                                !.evt = e.evt]
        /\ Unlock(t, None)

\* evt is the local variable of next() before the call of m_sinsp.next.
next(t, d, timeout) ==
  /\ pc[t] = "in"
  /\ drv[d].alive
  /\ \E evt \in Indeterminate :
     LET r == SinspNext(drv[d], timeout)
         e == SinspEvent(r.rc, IF r.evt = UNSET THEN evt ELSE r.evt)
     IN /\ drv' = [drv EXCEPT ![d] =
                     [r.D EXCEPT !.calls = IF r.D.src.kind = "file"
                                           THEN Min(r.D.calls + 1, r.D.src.len + 1)
                                           ELSE 0,
                                 !.eofs = IF e.rc = SCAP_EOF
                                          THEN Min(r.D.eofs + 1, 2)
                                          ELSE r.D.eofs]]
        /\ ret' = [NoRet EXCEPT !.op = "next", !.d = d, !.rc = e.rc,
                                !.evt = e.evt]
        /\ Unlock(t, None)

\* ---------------------------------------------------------- extraction
\* The event a handle's pointer refers to: the inspector's current event.
Deref(D, evt) == D.cur

\* One invocation of an extractor: the member function called, the filter
\* check it is called on and the event pointer passed.
Pass(fn, chk, evt) == [fn |-> fn, chk |-> chk, evt |-> evt]

\* Mutant of FieldAsString: the value is rendered before the event pointer is
\* tested.
FieldAsStringRendersFirst(D, field_name, evt) ==
  LET chk == new_filter_check_from_fldname(D, field_name)
  IN IF chk = "nullptr"
     THEN [err |-> InvalidFieldError, val |-> <<>>, passes |-> <<>>,
           built |-> <<>>]
     ELSE IF evt = NULL
     THEN [err |-> NullEventError, val |-> <<>>,
           passes |-> <<Pass("tostring", chk, evt)>>,
           built |-> <<field_name>>]
     ELSE IF ~HasValue(field_name, Deref(D, evt))
     THEN [err |-> NullValueError, val |-> <<>>,
           passes |-> <<Pass("tostring", chk, evt)>>,
           built |-> <<field_name>>]
     ELSE [err |-> None, val |-> tostring(field_name, Deref(D, evt)),
           passes |-> <<Pass("tostring", chk, evt)>>,
           built |-> <<field_name>>]

\* event_field_as_string(field_name, event) on driver state D: the exception
\* thrown (None when it returns), the string returned, the extractor
\* invocations made (passes) and the field names a filter check was
\* constructed and parsed for (built).
FieldAsString(D, field_name, evt) ==
  LET chk == new_filter_check_from_fldname(D, field_name)
  IN IF evt = NULL
     THEN [err |-> NullEventError, val |-> <<>>, passes |-> <<>>,
           built |-> <<>>]
     ELSE IF chk = "nullptr"
     THEN [err |-> InvalidFieldError, val |-> <<>>, passes |-> <<>>,
           built |-> <<>>]
     ELSE IF ~HasValue(field_name, Deref(D, evt))
     THEN [err |-> NullValueError, val |-> <<>>,
           passes |-> <<Pass("tostring", chk, evt)>>,
           built |-> <<field_name>>]
     ELSE [err |-> None, val |-> tostring(field_name, Deref(D, evt)),
           passes |-> <<Pass("tostring", chk, evt)>>,
           built |-> <<field_name>>]

\* Mutant of FieldAsStringWithOffsets: the field is looked up before the
\* event pointer is tested.
FieldAsStringWithOffsetsFieldFirst(D, field_name, evt, start, length) ==
  LET chk == new_filter_check_from_fldname(D, field_name)
      render == <<Pass("tostring", chk, evt)>>
      both == <<Pass("tostring", chk, evt),
                Pass("extract_with_offsets", chk, evt)>>
  IN IF chk = "nullptr"
     THEN [err |-> InvalidFieldError, val |-> <<>>,
           start |-> start, length |-> length,
           passes |-> <<>>, built |-> <<>>]
     ELSE IF evt = NULL
     THEN [err |-> NullEventError, val |-> <<>>,
           start |-> start, length |-> length,
           passes |-> <<>>, built |-> <<field_name>>]
     ELSE IF ~HasValue(field_name, Deref(D, evt))
     THEN [err |-> NullValueError, val |-> <<>>,
           start |-> start, length |-> length,
           passes |-> render, built |-> <<field_name>>]
     ELSE LET s == tostring(field_name, Deref(D, evt))
              offsets == extract_with_offsets(field_name, Deref(D, evt))
          IN IF offsets # <<>>
             THEN [err |-> None, val |-> s,
                   start |-> offsets[1].start, length |-> offsets[1].length,
                   passes |-> both, built |-> <<field_name>>]
             ELSE [err |-> None, val |-> s,
                   start |-> start, length |-> length,
                   passes |-> both, built |-> <<field_name>>]

\* event_field_as_string_with_offsets(field_name, event, start, length):
\* start and length are the caller's variables, passed by reference.
FieldAsStringWithOffsets(D, field_name, evt, start, length) ==
  LET chk == new_filter_check_from_fldname(D, field_name)
      render == <<Pass("tostring", chk, evt)>>
      both == <<Pass("tostring", chk, evt),
                Pass("extract_with_offsets", chk, evt)>>
  IN IF evt = NULL
     THEN [err |-> NullEventError, val |-> <<>>,
           start |-> start, length |-> length,
           passes |-> <<>>, built |-> <<>>]
     ELSE IF chk = "nullptr"
     THEN [err |-> InvalidFieldError, val |-> <<>>,
           start |-> start, length |-> length,
           passes |-> <<>>, built |-> <<>>]
     ELSE IF ~HasValue(field_name, Deref(D, evt))
     THEN [err |-> NullValueError, val |-> <<>>,
           start |-> start, length |-> length,
           passes |-> render, built |-> <<field_name>>]
     ELSE LET s == tostring(field_name, Deref(D, evt))
              offsets == extract_with_offsets(field_name, Deref(D, evt))
          IN IF offsets # <<>>
             THEN [err |-> None, val |-> s,
                   start |-> offsets[1].start, length |-> offsets[1].length,
                   passes |-> both, built |-> <<field_name>>]
             ELSE [err |-> None, val |-> s,
                   start |-> start, length |-> length,
                   passes |-> both, built |-> <<field_name>>]

\* Event pointers a caller can hold for driver state D: nullptr, or the
\* pointer an earlier next() returned with SCAP_SUCCESS.
Handles(D) == IF D.cur = NoEvt THEN {NULL} ELSE {NULL, PTR}

\* Values the caller's start and length hold before the call.
CallerOffsets == {[start |-> 0, length |-> 0], [start |-> 7, length |-> 3]}

\* Mutant of event_field_as_string: a successful extraction registers the
\* filterchecks of every plugin.
event_field_as_string_registering(t, d, field_name, evt) ==
  /\ pc[t] = "in"
  /\ drv[d].alive
  /\ evt \in Handles(drv[d])
  /\ LET r == FieldAsString(drv[d], field_name, evt)
     IN /\ ret' = [NoRet EXCEPT !.op = "event_field_as_string", !.d = d,
                                !.fld = field_name, !.evt = evt,
                                !.err = r.err, !.val = r.val,
                                !.passes = r.passes, !.built = r.built]
        /\ drv' = [drv EXCEPT ![d].extracted = @ \/ r.err = None,
                              ![d].last = IF r.err = None
                                          THEN field_name ELSE @,
                              ![d].checks = IF r.err = None
                                            THEN @ \cup Plugins ELSE @]
        /\ Unlock(t, r.err)

event_field_as_string(t, d, field_name, evt) ==
  /\ pc[t] = "in"
  /\ drv[d].alive
  /\ evt \in Handles(drv[d])
  /\ LET r == FieldAsString(drv[d], field_name, evt)
     IN /\ ret' = [NoRet EXCEPT !.op = "event_field_as_string", !.d = d,
                                !.fld = field_name, !.evt = evt,
                                !.err = r.err, !.val = r.val,
                                !.passes = r.passes, !.built = r.built]
        /\ drv' = [drv EXCEPT ![d].extracted = @ \/ r.err = None,
                              ![d].last = IF r.err = None
                                          THEN field_name ELSE @]
        /\ Unlock(t, r.err)

\* Mutant of event_field_as_string_with_offsets: a failed extraction skips
\* to the next event.
event_field_as_string_with_offsets_skipping(t, d, field_name, evt, io) ==
  /\ pc[t] = "in"
  /\ drv[d].alive
  /\ evt \in Handles(drv[d])
  /\ LET r == FieldAsStringWithOffsets(drv[d], field_name, evt,
                                       io.start, io.length)
     IN /\ ret' = [NoRet EXCEPT !.op = "event_field_as_string_with_offsets",
                                !.d = d, !.fld = field_name, !.evt = evt,
                                !.err = r.err, !.val = r.val,
                                !.start = r.start, !.length = r.length,
                                !.passes = r.passes, !.built = r.built]
        /\ drv' = [drv EXCEPT ![d] =
                     IF r.err = None
                     THEN [@ EXCEPT !.extracted = TRUE, !.last = field_name]
                     ELSE SinspNext(@, FALSE).D]
        /\ Unlock(t, r.err)

event_field_as_string_with_offsets(t, d, field_name, evt, io) ==
  /\ pc[t] = "in"
  /\ drv[d].alive
  /\ evt \in Handles(drv[d])
  /\ LET r == FieldAsStringWithOffsets(drv[d], field_name, evt,
                                       io.start, io.length)
     IN /\ ret' = [NoRet EXCEPT !.op = "event_field_as_string_with_offsets",
                                !.d = d, !.fld = field_name, !.evt = evt,
                                !.err = r.err, !.val = r.val,
                                !.start = r.start, !.length = r.length,
                                !.passes = r.passes, !.built = r.built]
        /\ drv' = [drv EXCEPT ![d].extracted = @ \/ r.err = None,
                              ![d].last = IF r.err = None
                                          THEN field_name ELSE @]
        /\ Unlock(t, r.err)

\* Mutant of CopyMetrics: the list returned is a view of the collector's
\* storage.
ViewMetrics(buf) ==
  [storage |-> "collector",
   items |-> [i \in 1..Len(buf) |->
                [name |-> buf[i].name, value |-> buf[i].u64]]]

\* The vector get_metrics builds from the collector's storage buf: a new
\* SinspMetric per entry, its name a new string, its value the u64 member.
CopyMetrics(buf) ==
  [storage |-> "owned",
   items |-> [i \in 1..Len(buf) |->
                [name |-> buf[i].name, value |-> buf[i].u64]]]

\* What the holder of a returned list reads from it while the collector's
\* storage holds buf.
ReadMetrics(list, buf) ==
  IF list.storage = "collector"
  THEN [i \in 1..Len(buf) |-> [name |-> buf[i].name, value |-> buf[i].u64]]
  ELSE list.items

\* ------------------------------------- offset-aware extraction, by pass
\* Mutant of render_pass: the mutex is given up between the two passes.
render_pass_unlocking(t, d, field_name, evt, io) ==
  /\ pc[t] = "in"
  /\ drv[d].alive
  /\ evt \in Handles(drv[d])
  /\ UNCHANGED drv
  /\ LET chk == new_filter_check_from_fldname(drv[d], field_name)
         fail(err) ==
           /\ ret' = [NoRet EXCEPT !.op = "event_field_as_string_with_offsets",
                                   !.d = d, !.fld = field_name, !.evt = evt,
                                   !.err = err, !.start = io.start,
                                   !.length = io.length]
           /\ Unlock(t, err)
     IN IF evt = NULL THEN fail(NullEventError)
        ELSE IF chk = "nullptr" THEN fail(InvalidFieldError)
        ELSE /\ ret' = [NoRet EXCEPT !.frame =
                         [d |-> d, fld |-> field_name, evt |-> evt, chk |-> chk,
                          isnull |-> ~HasValue(field_name, Deref(drv[d], evt)),
                          result |-> IF HasValue(field_name, Deref(drv[d], evt))
                                     THEN tostring(field_name, Deref(drv[d], evt))
                                     ELSE <<>>,
                          start |-> io.start, length |-> io.length]]
             /\ pc' = [pc EXCEPT ![t] = "rendered"]
             /\ lock' = 0

\* event_field_as_string_with_offsets up to and with the rendering pass: the
\* null test, the lookup, parse_field_name and chk->tostring(evt).  The
\* function goes on holding the mutex.
render_pass(t, d, field_name, evt, io) ==
  /\ pc[t] = "in"
  /\ drv[d].alive
  /\ evt \in Handles(drv[d])
  /\ UNCHANGED drv
  /\ LET chk == new_filter_check_from_fldname(drv[d], field_name)
         fail(err) ==
           /\ ret' = [NoRet EXCEPT !.op = "event_field_as_string_with_offsets",
                                   !.d = d, !.fld = field_name, !.evt = evt,
                                   !.err = err, !.start = io.start,
                                   !.length = io.length]
           /\ Unlock(t, err)
     IN IF evt = NULL THEN fail(NullEventError)
        ELSE IF chk = "nullptr" THEN fail(InvalidFieldError)
        ELSE /\ ret' = [NoRet EXCEPT !.frame =
                         [d |-> d, fld |-> field_name, evt |-> evt, chk |-> chk,
                          isnull |-> ~HasValue(field_name, Deref(drv[d], evt)),
                          result |-> IF HasValue(field_name, Deref(drv[d], evt))
                                     THEN tostring(field_name, Deref(drv[d], evt))
                                     ELSE <<>>,
                          start |-> io.start, length |-> io.length]]
             /\ pc' = [pc EXCEPT ![t] = "rendered"]
             /\ UNCHANGED lock

\* The rest of event_field_as_string_with_offsets: the test of what tostring
\* returned, the offset pass chk->extract_with_offsets(evt, values, offsets)
\* on the same filter check and event pointer, and the return.
offset_pass(t) ==
  /\ pc[t] = "rendered"
  /\ LET F == ret.frame
         d == F.d
         done == [NoRet EXCEPT !.op = "event_field_as_string_with_offsets",
                               !.d = d, !.fld = F.fld, !.evt = F.evt,
                               !.built = <<F.fld>>]
     IN IF F.isnull
        THEN /\ ret' = [done EXCEPT !.err = NullValueError,
                                    !.start = F.start, !.length = F.length,
                                    !.passes = <<Pass("tostring", F.chk, F.evt)>>]
             /\ UNCHANGED drv
             /\ Unlock(t, NullValueError)
        ELSE LET offsets == extract_with_offsets(F.fld, Deref(drv[d], F.evt))
             IN /\ ret' = [done EXCEPT
                             !.val = F.result,
                             !.start = IF offsets # <<>>
                                       THEN offsets[1].start ELSE F.start,
                             !.length = IF offsets # <<>>
                                        THEN offsets[1].length ELSE F.length,
                             !.passes =
                               <<Pass("tostring", F.chk, F.evt),
                                 Pass("extract_with_offsets", F.chk, F.evt)>>]
                /\ drv' = [drv EXCEPT ![d].extracted = TRUE,
                                      ![d].last = F.fld]
                /\ Unlock(t, None)

\* -------------------------------------------------------- destruction
\* The owner of a driver drops its unique_ptr: ~SinspTestDriver, which the
\* class does not declare, starts destroying m_filterchecks, m_metrics and
\* m_sinsp.  It takes no mutex.  No call is made on a driver being destroyed.
destructor_begin(t, d) ==
  /\ pc[t] = "idle"
  /\ drv[d].alive
  /\ pc' = [pc EXCEPT ![t] = "destroying"]
  /\ drv' = [drv EXCEPT ![d].alive = FALSE, ![d].dying = t]
  /\ UNCHANGED <<lock, ret>>

\* The members are destroyed and the object is gone.
destructor_end(t, d) ==
  /\ pc[t] = "destroying"
  /\ drv[d].dying = t
  /\ pc' = [pc EXCEPT ![t] = "idle"]
  /\ drv' = [drv EXCEPT ![d] = NoDriver]
  /\ UNCHANGED <<lock, ret>>

\* m_metrics.snapshot() overwrites the collector's storage, which nothing
\* reads before the next snapshot: the storage is not kept between calls.
get_metrics(t, d) ==
  /\ pc[t] = "in"
  /\ drv[d].alive
  /\ ret' = [NoRet EXCEPT !.op = "get_metrics", !.d = d,
                          !.metrics = CopyMetrics(SinspMetrics(drv[d]))]
  /\ Unlock(t, None)
  /\ UNCHANGED drv

\* ------------------------------------------------------ specification
\* The arguments the callers draw from.
FullInputs ==
  [plugins |-> Plugins, configs |-> Configs, sources |-> Sources,
   paths |-> Paths, openconfigs |-> Configs, reopen |-> BOOLEAN, timeout |-> BOOLEAN,
   fields |-> FieldNames, io |-> CallerOffsets]

\* Few arguments, chosen so that every operation runs and every failure an
\* operation can end with happens: enough to exercise the mutex.
LeanInputs ==
  [plugins |-> {PA}, configs |-> Configs, sources |-> {"test_source"},
   paths |-> {"events.scap"}, openconfigs |-> {"bad"}, reopen |-> {FALSE},
   timeout |-> {FALSE}, fields |-> {"a.field"},
   io |-> {[start |-> 0, length |-> 0]}]

\* The operations that make one extractor invocation at most.
Ops(t, d, In) ==
  \/ new_test_driver(t, d)
  \/ \E p \in In.plugins, config \in In.configs :
       register_plugin(t, d, p, config)
  \/ \E p \in In.plugins, source \in In.sources :
       add_filterchecks(t, d, p, source)
  \/ \E path \in In.paths, reopen \in In.reopen :
       load_capture_file(t, d, path, reopen)
  \/ \E name \in In.plugins, config \in In.openconfigs,
        reopen \in In.reopen :
       start_capture(t, d, name, config, reopen)
  \/ \E timeout \in In.timeout : next(t, d, timeout)
  \/ \E f \in In.fields, e \in {NULL, PTR} :
       event_field_as_string(t, d, f, e)
  \/ get_metrics(t, d)

NextOn(Ts, Ds, In) ==
  \E t \in Ts :
    \/ Call(t)
    \/ Lock(t)
    \/ \E d \in Ds :
         \/ Ops(t, d, In)
         \/ \E f \in In.fields, e \in {NULL, PTR}, io \in In.io :
              event_field_as_string_with_offsets(t, d, f, e, io)

\* One driver, every argument: the functional behaviour of a driver.
Next == NextOn(Threads, {1}, FullInputs)

Spec == Init /\ [][Next]_vars

\* One driver, the offset-aware extraction taken pass by pass.
NextPasses ==
  \E t \in Threads :
    \/ Call(t)
    \/ Lock(t)
    \/ Ops(t, 1, FullInputs)
    \/ \E f \in FieldNames, e \in {NULL, PTR}, io \in CallerOffsets :
         render_pass(t, 1, f, e, io)
    \/ offset_pass(t)

SpecPasses == Init /\ [][NextPasses]_vars

\* Several drivers sharing the mutex.
NextMT == NextOn(Threads, Drivers, LeanInputs)

SpecMT == Init /\ [][NextMT]_vars

\* Several drivers, created and destroyed.
NextLife ==
  \/ NextMT
  \/ \E t \in Threads, d \in Drivers :
       destructor_begin(t, d) \/ destructor_end(t, d)

SpecLife == Init /\ [][NextLife]_vars

\* Several threads on one driver: what a thread does with the mutex does not
\* depend on the driver it calls.
NextFair == NextOn(Threads, {1}, LeanInputs)

\* The operation of thread t runs to its end.
Body(t) == pc[t] = "in" /\ NextFair /\ pc'[t] = "idle"

\* Fair scheduling: a thread inside an operation finishes it, and a thread
\* blocked on the mutex gets it if it is free again and again.
FairSpec ==
  /\ Init /\ [][NextFair]_vars
  /\ \A t \in Threads : SF_vars(Lock(t))
  /\ \A t \in Threads : WF_vars(Body(t))

\* ============================================================= claims
\* A call of operation op on driver d completes in this step.
Completes(op, d) == ret.op = "none" /\ ret'.op = op /\ ret'.d = d

Extractions == {"event_field_as_string", "event_field_as_string_with_offsets"}

\* C1: mutual exclusion.  Whatever the number of threads and drivers, at most
\* one thread is inside a public operation at any time, and a thread inside
\* one holds the process-wide mutex.
C1_MutualExclusion ==
  /\ Cardinality({t \in Threads : pc[t] = "in"}) <= 1
  /\ \A t \in Threads : pc[t] = "in" => lock = t

\* C1 witness: a thread is inside an operation while another one, which has
\* called an operation too, is blocked, with two drivers constructed.
C1_Witness ==
  /\ \A d \in {1, 2} : drv[d].alive
  /\ \E t1, t2 \in Threads : pc[t1] = "in" /\ pc[t2] = "waiting"

\* C2: the mutex is released on every exit path.  No thread holds it unless
\* it is inside an operation (so after any return or throw it is free), and
\* under fair scheduling every thread blocked on it eventually enters.
C2_LockReleased ==
  /\ [](\A t \in Threads : lock = t => pc[t] = "in")
  /\ \A t \in Threads : (pc[t] = "waiting") ~> (pc[t] = "in")

\* C2 witness: an operation has just failed, the mutex is free and another
\* thread is waiting to enter.
C2_Witness ==
  /\ ret.err \in {InitializationError, OpenError, InvalidFieldError,
                  NullEventError, NullValueError}
  /\ lock = 0
  /\ \E t \in Threads : pc[t] = "waiting"

\* C3: in every reachable driver state, for every field name and every event
\* handle, event_field_as_string and event_field_as_string_with_offsets end
\* the same way: the same exception, or the same string.
C3_EntryPointsAgree ==
  \A d \in Drivers, f \in FieldNames, io \in CallerOffsets :
    drv[d].alive =>
      \A e \in Handles(drv[d]) :
        LET a == FieldAsString(drv[d], f, e)
            b == FieldAsStringWithOffsets(drv[d], f, e, io.start, io.length)
        IN a.err = b.err /\ a.val = b.val

\* C3 witness: an offset-aware extraction of the plugin field has returned
\* the string the plain extraction returns.
C3_Witness ==
  /\ ret.op = "event_field_as_string_with_offsets"
  /\ ret.fld = "a.field"
  /\ ret.err = None
  /\ ret.val = FieldAsString(drv[ret.d], ret.fld, ret.evt).val

\* C4: a field name no registered extractor recognises fails with
\* InvalidFieldError on every non-null event, in both extraction calls and in
\* every reachable state; and no extraction changes what the registry
\* resolves.
C4_UnknownFieldRejected ==
  /\ [](\A d \in Drivers, f \in FieldNames, io \in CallerOffsets :
          (drv[d].alive /\ new_filter_check_from_fldname(drv[d], f) = "nullptr")
          => /\ FieldAsString(drv[d], f, PTR).err = InvalidFieldError
             /\ FieldAsStringWithOffsets(drv[d], f, PTR,
                                         io.start, io.length).err
                  = InvalidFieldError)
  /\ [][\A d \in Drivers :
          (\E op \in Extractions : Completes(op, d))
          => \A f \in FieldNames :
               new_filter_check_from_fldname(drv'[d], f)
                 = new_filter_check_from_fldname(drv[d], f)]_vars

\* C4 witness: after a successful extraction on the driver, an extraction of
\* an unrecognised field on a non-null event has failed with
\* InvalidFieldError.
C4_Witness ==
  /\ ret.op \in Extractions
  /\ ret.evt = PTR
  /\ ret.err = InvalidFieldError
  /\ drv[ret.d].extracted

\* The plugin has the extraction capability and lists the source.
Compatible(p, source) ==
  CAP_EXTRACTION \in caps(p) /\ source \in extract_event_sources(p)

\* C5: a plugin field resolves exactly after add_filterchecks(plugin, source)
\* with an extraction-capable plugin compatible with the source.  A call
\* where either condition fails raises no error and leaves the driver
\* unchanged; while the field does not resolve, extracting it fails with
\* InvalidFieldError; once it resolves it keeps resolving, and extracting it
\* from an event that carries it succeeds.
C5_PluginFieldGate ==
  /\ [](\A d \in Drivers, p \in Plugins, io \in CallerOffsets :
          \A f \in PluginFields(p) :
            drv[d].alive =>
              LET a == FieldAsString(drv[d], f, PTR)
                  b == FieldAsStringWithOffsets(drv[d], f, PTR,
                                                io.start, io.length)
              IN IF new_filter_check_from_fldname(drv[d], f) = "nullptr"
                 THEN a.err = InvalidFieldError /\ b.err = InvalidFieldError
                 ELSE /\ a.err # InvalidFieldError
                      /\ b.err # InvalidFieldError
                      /\ HasValue(f, drv[d].cur)
                         => a.err = None /\ b.err = None)
  /\ [][\A d \in Drivers, p \in Plugins :
          /\ (Completes("add_filterchecks", d) /\ ret'.plugin = p)
             => /\ ret'.err = None
                /\ IF Compatible(p, ret'.source)
                   THEN \A f \in PluginFields(p) :
                          new_filter_check_from_fldname(drv'[d], f) # "nullptr"
                   ELSE drv'[d] = drv[d]
          /\ \A f \in PluginFields(p) :
               IF new_filter_check_from_fldname(drv[d], f) = "nullptr"
               THEN new_filter_check_from_fldname(drv'[d], f) # "nullptr"
                    => /\ Completes("add_filterchecks", d)
                       /\ ret'.plugin = p
                       /\ Compatible(p, ret'.source)
               ELSE new_filter_check_from_fldname(drv'[d], f) # "nullptr"]_vars

\* C5 witness: the plugin field has been extracted, which takes a compatible
\* add_filterchecks before it.
C5_Witness ==
  /\ ret.op = "event_field_as_string"
  /\ ret.fld = "a.field"
  /\ ret.err = None

\* C6: once next() has returned SCAP_EOF on a driver, every later next() on
\* it returns SCAP_EOF, whatever extractions and get_metrics calls are made
\* in between.
C6_EofTerminal ==
  [][\A d \in Drivers :
       (drv[d].eofs > 0 /\ Completes("next", d)) => ret'.rc = SCAP_EOF]_vars

\* C6 witness: next() has returned SCAP_EOF a second time, on a driver that
\* also served an extraction.
C6_Witness ==
  /\ ret.op = "next"
  /\ ret.rc = SCAP_EOF
  /\ drv[ret.d].eofs = 2
  /\ drv[ret.d].extracted

\* C7: on a capture file of n events, call k <= n of next() after
\* load_capture_file returns SCAP_SUCCESS and a non-null event whose evt.num
\* renders as k-1, and call n+1 returns SCAP_EOF.
C7_CaptureFileOrder ==
  ret.op = "next" =>
    LET D == drv[ret.d]
        n == D.src.len
        k == D.calls
    IN D.src.kind = "file" =>
         /\ k <= n => /\ ret.rc = SCAP_SUCCESS
                      /\ ret.evt # NULL
                      /\ FieldAsString(D, "evt.num", ret.evt).err = None
                      /\ FieldAsString(D, "evt.num", ret.evt).val
                           = Dec(k - 1)
         /\ k = n + 1 => ret.rc = SCAP_EOF

\* C7 witness: call n+1 on the capture file of n = MaxEvents events has
\* returned SCAP_EOF.
C7_Witness ==
  /\ ret.op = "next"
  /\ drv[ret.d].src = [kind |-> "file", name |-> "events.scap",
                       len |-> MaxEvents]
  /\ drv[ret.d].calls = MaxEvents + 1
  /\ drv[ret.d].cur.num = MaxEvents - 1
  /\ ret.rc = SCAP_EOF

\* C8: a successful offset-aware extraction returns start = length = 0 when
\* the offset pass yields no entry, whatever the caller's variables held, and
\* the start and length of the first entry otherwise.
C8_OffsetsSentinel ==
  (ret.op = "event_field_as_string_with_offsets" /\ ret.err = None) =>
    LET offsets == extract_with_offsets(ret.fld, drv[ret.d].cur)
    IN IF offsets = <<>>
       THEN ret.start = 0 /\ ret.length = 0
       ELSE ret.start = offsets[1].start /\ ret.length = offsets[1].length

\* C9: an extraction call that fails leaves the driver as it was: iteration
\* state, capture state and extractor registry, and with them the results of
\* all later next() calls.
C9_FailedExtractionNoEffect ==
  [][\A d \in Drivers :
       ((\E op \in Extractions : Completes(op, d)) /\ ret'.err # None)
       => /\ drv' = drv
          /\ \A timeout \in BOOLEAN :
               SinspNext(drv'[d], timeout) = SinspNext(drv[d], timeout)]_vars

\* C9 witness: an extraction has failed with NullValueError on a capturing
\* driver that has events left to deliver.
C9_Witness ==
  /\ ret.op \in Extractions
  /\ ret.err = NullValueError
  /\ drv[ret.d].src.kind # "none"
  /\ drv[ret.d].pos < drv[ret.d].src.len

\* C10: once a driver is capturing, every further load_capture_file or
\* start_capture on it is rejected and the driver stays capturing on the
\* source opened first.
C10_SingleOpen ==
  [][\A d \in Drivers :
       drv[d].src.kind # "none"
       => /\ drv'[d].src = drv[d].src
          /\ (Completes("load_capture_file", d) \/ Completes("start_capture", d))
             => ret'.err # None]_vars

\* C11: register_plugin returns a plugin handle exactly when the plugin
\* accepts the configuration.  A call returns a handle or throws, never both;
\* once the inspector has taken the descriptor, the handle of that plugin is
\* returned if the plugin's init accepts the configuration, and otherwise the
\* call fails with InitializationError carrying the message the plugin wrote;
\* no other call fails with InitializationError, and no handle is returned
\* for a configuration the plugin rejects.
C11_HandleIffInitAccepts ==
  [][\A d \in Drivers :
       Completes("register_plugin", d) =>
         LET p == ret'.plugin
             config == ret'.config
             asked == drv[d].plug[p] = "none"
         IN /\ (ret'.handle # "none") <=> (ret'.err = None)
            /\ ret'.handle \in {"none", p}
            /\ ret'.handle # "none" => (asked /\ PluginInit(p, config))
            /\ ret'.err = InitializationError
                 <=> (asked /\ ~PluginInit(p, config))
            /\ ret'.err = InitializationError
                 => ret'.msg = PluginInitErr(p, config)
            /\ (asked /\ PluginInit(p, config)) => ret'.handle = p
            /\ asked <=> (config \in Configs)]_vars

\* C11 witness: on one driver a plugin has been given a configuration it
\* rejects, and the call failed with the plugin's message, after another
\* plugin was registered with a configuration it accepts.
C11_Witness ==
  /\ ret.op = "register_plugin"
  /\ ret.err = InitializationError
  /\ ret.msg = PluginInitErr(ret.plugin, "bad")
  /\ ret.handle = "none"
  /\ \E q \in Plugins : drv[ret.d].plug[q] = "ready"

\* C12: an absent event pointer is never handed to an extractor.  In every
\* driver state and for every field name, resolvable or not, both extraction
\* calls on a null pointer fail with NullEventError and invoke neither
\* tostring nor extract_with_offsets; and no extraction call that completed
\* has passed a null pointer to either.
C12_NullNeverExtracted ==
  /\ \A d \in Drivers, f \in FieldNames, io \in CallerOffsets :
       drv[d].alive =>
         LET a == FieldAsString(drv[d], f, NULL)
             b == FieldAsStringWithOffsets(drv[d], f, NULL,
                                           io.start, io.length)
         IN /\ a.err = NullEventError /\ a.passes = <<>>
            /\ b.err = NullEventError /\ b.passes = <<>>
  /\ ret.op \in Extractions =>
       /\ \A i \in 1..Len(ret.passes) : ret.passes[i].evt # NULL
       /\ ret.evt = NULL => ret.err = NullEventError /\ ret.passes = <<>>

\* C12 witness: with an event delivered and the plugin field resolvable, an
\* offset-aware extraction of that field on a null pointer has failed with
\* NullEventError, no extractor invoked.
C12_Witness ==
  /\ ret.op = "event_field_as_string_with_offsets"
  /\ ret.evt = NULL
  /\ ret.fld = "a.field"
  /\ new_filter_check_from_fldname(drv[ret.d], ret.fld) # "nullptr"
  /\ drv[ret.d].cur # NoEvt
  /\ ret.err = NullEventError
  /\ ret.passes = <<>>

\* What the collector's storage of a driver in state D can hold after a later
\* snapshot: other plugins initialised, other numbers of events delivered.
LaterSnapshots(D) ==
  {SinspMetrics([D EXCEPT !.plug = plug, !.pos = pos]) :
     plug \in [Plugins -> {"none", "failed", "ready"}], pos \in 0..MaxEvents}

\* C13: get_metrics never fails and returns a newly allocated list holding
\* exactly the (name, u64 value) pairs of the snapshot it triggered, in the
\* collector's order, the empty list when there is no metric; and whatever a
\* later snapshot writes into the collector's storage, the list reads as it
\* was returned.
C13_MetricsCopied ==
  ret.op = "get_metrics" =>
    LET buf == SinspMetrics(drv[ret.d])
        list == ret.metrics
    IN /\ ret.err = None
       /\ list.storage = "owned"
       /\ Len(list.items) = Len(buf)
       /\ \A i \in 1..Len(buf) :
            list.items[i] = [name |-> buf[i].name, value |-> buf[i].u64]
       /\ Len(buf) = 0 => list.items = <<>>
       /\ \A later \in LaterSnapshots(drv[ret.d]) :
            ReadMetrics(list, later) = list.items

\* C13 witness: get_metrics has returned two metrics, the first one counting
\* the events the capturing plugin delivered.
C13_Witness ==
  /\ ret.op = "get_metrics"
  /\ Len(ret.metrics.items) = 2
  /\ ret.metrics.items[1].value > 0
  /\ ret.metrics.items[2].value = 0

\* C14: extraction checks field resolution first, the event pointer second
\* and the value last.  A call with an unrecognised field name fails with
\* InvalidFieldError, also on a null pointer; a call with a recognised name on
\* a null pointer fails with NullEventError; NullValueError comes only with a
\* recognised name and a non-null pointer.
C14_FieldCheckedFirst ==
  ret.op \in Extractions =>
    LET resolved ==
          new_filter_check_from_fldname(drv[ret.d], ret.fld) # "nullptr"
    IN /\ ~resolved => ret.err = InvalidFieldError
       /\ (resolved /\ ret.evt = NULL) => ret.err = NullEventError
       /\ ret.err = NullValueError => (resolved /\ ret.evt # NULL)

\* C15: extractors are cached per field name.  An extraction of the field
\* name that the driver extracted last constructs and parses no extractor: it
\* uses the one the earlier call left.
C15_ExtractorBuiltOnce ==
  [][\A d \in Drivers :
       ((\E op \in Extractions : Completes(op, d)) /\ ret'.fld = drv[d].last)
       => ret'.built = <<>>]_vars

\* C16: a successful offset-aware extraction makes exactly two extractor
\* invocations, tostring first and extract_with_offsets second, on the same
\* filter check and the same event, within one hold of the mutex.  Between
\* the two the thread holds the mutex; no other operation completes and the
\* driver does not change, so the event rendered is the event the offsets are
\* taken from; the call ends as the function taken as a whole ends; and a
\* call whose rendering gives no value fails with NullValueError after the
\* one invocation of tostring.
C16_TwoPassesOneHold ==
  /\ [](\A t \in Threads : pc[t] = "rendered" => lock = t)
  /\ [][\A t \in Threads :
          pc[t] = "rendered" =>
            LET F == ret.frame
                whole == FieldAsStringWithOffsets(drv[F.d], F.fld, F.evt,
                                                  F.start, F.length)
            IN \/ /\ pc'[t] = "rendered"
                  /\ UNCHANGED <<lock, drv, ret>>
               \/ /\ pc'[t] = "idle"
                  /\ ret'.op = "event_field_as_string_with_offsets"
                  /\ ret'.d = F.d /\ ret'.fld = F.fld /\ ret'.evt = F.evt
                  /\ drv'[F.d].cur = drv[F.d].cur
                  /\ ret'.err = whole.err /\ ret'.val = whole.val
                  /\ ret'.start = whole.start /\ ret'.length = whole.length
                  /\ ret'.passes = whole.passes]_vars
  /\ [](ret.op = "event_field_as_string_with_offsets" =>
          /\ ret.err = None
               => /\ Len(ret.passes) = 2
                  /\ ret.passes[1].fn = "tostring"
                  /\ ret.passes[2].fn = "extract_with_offsets"
                  /\ ret.passes[1].chk = ret.passes[2].chk
                  /\ ret.passes[1].evt = ret.evt
                  /\ ret.passes[2].evt = ret.evt
          /\ ret.err = NullValueError
               => /\ Len(ret.passes) = 1
                  /\ ret.passes[1].fn = "tostring"
                  /\ ret.passes[1].evt = ret.evt
          /\ ret.err \in {None, NullValueError} => ret.evt # NULL)

\* C16 witness: an offset-aware extraction of the plugin field has returned
\* the offsets of the first occurrence after its two passes, while another
\* thread was kept waiting for the mutex.
C16_Witness ==
  /\ ret.op = "event_field_as_string_with_offsets"
  /\ ret.fld = "a.field"
  /\ ret.err = None
  /\ Len(ret.passes) = 2
  /\ extract_with_offsets(ret.fld, drv[ret.d].cur) # <<>>
  /\ ret.start = extract_with_offsets(ret.fld, drv[ret.d].cur)[1].start
  /\ \E t \in Threads : pc[t] = "waiting"

\* C17: a register_plugin that fails with InitializationError leaves the
\* inspector's plugin registry as it was: the rejected plugin is not known to
\* the inspector afterwards.
C17_FailedRegisterNoEffect ==
  [][\A d \in Drivers :
       (Completes("register_plugin", d) /\ ret'.err = InitializationError)
       => /\ drv'[d].plug = drv[d].plug
          /\ drv'[d].plug[ret'.plugin] = "none"]_vars

\* C18: whenever next() returns a status other than SCAP_SUCCESS, the handle
\* it returns has a null pointer, so that both extraction calls on the handle
\* fail with NullEventError, whatever the field.
C18_NullHandleOnFailure ==
  (ret.op = "next" /\ ret.rc # SCAP_SUCCESS) =>
    /\ ret.evt = NULL
    /\ \A f \in FieldNames, io \in CallerOffsets :
         /\ FieldAsString(drv[ret.d], f, ret.evt).err = NullEventError
         /\ FieldAsStringWithOffsets(drv[ret.d], f, ret.evt,
                                     io.start, io.length).err = NullEventError

\* C19: the destruction of a driver is serialised with the locked operations.
\* While a driver is being destroyed, no locked operation (construction,
\* registration, open, next, extraction, metrics) runs on another driver.
C19_TeardownSerialised ==
  [][\A d, e \in Drivers :
       (d # e /\ drv[d].dying # 0)
       => ~(ret.op = "none" /\ ret'.op # "none" /\ ret'.d = e)]_vars
====
